---- MODULE Spec2Model ----
(***************************************************************************)
(* Model of the mini-golf positioning pipeline of jVeyZ/V3D_Proy1:         *)
(*   - MiniGolfEngine (src/pyScripts/game_engine.py): motion hysteresis,   *)
(*     stroke counting, hole-in, celebration, level advance, game over;    *)
(*   - ColorTracker (src/tracking.py): lost-frame counter and coasting.    *)
(*                                                                         *)
(* Units.  Plane coordinates are integers in millimetres (the source uses  *)
(* centimetres as floats: 4.0 cm = 40 mm).  Distances are compared through *)
(* their squares, which is exact on the integer grid and order-preserving: *)
(* norm(p - q) < t  <=>  Dist2(p, q) < t*t.  distance_to_hole therefore    *)
(* holds the squared distance in mm^2.  The clock is read in whole seconds.*)
(***************************************************************************)
EXTENDS Integers, Sequences, FiniteSets, TLC

\* ---------------------------------------------------------------- config.py
HOLE_RADIUS_MM == 35
HOLE_IN_TOLERANCE_MM == 40
BALL_STOPPED_THRESHOLD_MM == 8
BALL_STOPPED_FRAMES == 15
MAX_PUTTS_PER_HOLE == 10
HOLE_POSITIONS ==
    << <<450, 200>>, <<150, 100>>, <<500, 350>>, <<100, 300>>, <<300, 50>> >>

CAMERA_WIDTH == 640
CAMERA_HEIGHT == 480
BALL_MIN_RADIUS_PX == 8
BALL_MAX_RADIUS_PX == 120
TRACKING_SEARCH_MARGIN == 80

\* ColorTracker.__init__ (_max_lost_frames)
MAX_LOST_FRAMES == 30

\* MiniGolfEngine.__init__
CELEBRATION_DURATION == 3
MaxHistory == BALL_STOPPED_FRAMES * 2

\* None (ball_world_pos, hole_position) and float('inf') (distance_to_hole)
NoPos == <<>>
INF == -1
\* None, for a matrix, the image corners and the camera centre
NoMatrix == <<>>
NoCorners == <<>>
NoCenter == <<>>

\* ---------------------------------------------------------------- bounds
\* The environment is a turn-based player: the ball is putted only when it is
\* shown at rest (or not yet seen on this level), a roll then shows on at
\* most MaxRoll consecutive frames as a change of position, and the stored
\* history holds at most MaxRoll changes of position.
MaxRoll == 1
\* updates explored beyond the one that makes the stillness counter reach
\* BALL_STOPPED_FRAMES (the counter itself is unbounded in the source)
MaxStillExtra == 1
\* total score explored (restart_level lets one level be scored again and
\* again, so the score is unbounded in the source)
MaxScore == 6
\* failed tracker updates explored beyond the one that reports the loss (the
\* lost counter is unbounded in the source)
MaxLostExtra == 1

VARIABLES
    \* GameState
    level, putts, total_score, status, ball_world_pos, hole_position,
    is_ball_moving, is_hole_in, game_over, distance_to_hole,
    \* MiniGolfEngine
    stopped_frame_count, last_positions, celebrating,
    \* time.time() - _hole_in_time, in seconds
    elapsed,
    \* the call just made on the engine, and whether it carried a position
    call,
    \* the scripted trajectory being fed to the engine: [kind, at, n]
    script,
    \* ColorTracker, and what its last update returned
    trk, result,
    \* consecutive tracker updates, since the last initialisation or match,
    \* whose frame showed no ball inside the search window
    misses,
    \* OpenCVTracker, and what its last update returned
    cvt, cvresult,
    \* MiniGolfApp: args.tracker (the class of self.tracker: trk is the
    \* tracker in use when it is "color", cvt otherwise), _detection_mode,
    \* _first_frame, and what the last call of _process_detection did
    method, detection_mode, first_frame, detection,
    \* the last call of manual_detector.detect_point: the scene of
    \* _last_frame, the point given and what the call returned
    click,
    \* HomographyCalibrator: H, H_inv, image_corners, _calibration_done
    H, H_inv, image_corners, calibration_done,
    \* the last calibration attempt: [op, outcome]
    attempt,
    \* PlanarPositioner._camera_center_world of the application's positioner
    camera_center,
    \* the last call of correct_height: its arguments and what it returned
    hc

gameVars == <<level, putts, total_score, status, ball_world_pos, hole_position,
              is_ball_moving, is_hole_in, game_over, distance_to_hole>>
engineVars == <<gameVars, stopped_frame_count, last_positions, celebrating>>
trackerVars == <<trk, result, misses>>
cvVars == <<cvt, cvresult>>
loopVars == <<method, detection_mode, first_frame, detection, click>>
calibratorVars == <<H, H_inv, image_corners, calibration_done>>
positionerVars == <<camera_center, hc>>
appVars == <<cvVars, loopVars, calibratorVars, attempt, positionerVars>>
vars == <<engineVars, elapsed, call, script, trackerVars, appVars>>

\* ---------------------------------------------------------------- helpers
Sq(x) == x * x

\* np.linalg.norm(p - q), squared
Dist2(p, q) == Sq(p[1] - q[1]) + Sq(p[2] - q[2])

Max(a, b) == IF a >= b THEN a ELSE b

\* xs[-n:]
LastN(xs, n) ==
    IF Len(xs) <= n THEN xs ELSE SubSeq(xs, Len(xs) - n + 1, Len(xs))

\* the engine as one record, for the procedures that transform it
Eng ==
    [level |-> level, putts |-> putts, total_score |-> total_score,
     status |-> status, ball_world_pos |-> ball_world_pos,
     hole_position |-> hole_position, is_ball_moving |-> is_ball_moving,
     is_hole_in |-> is_hole_in, game_over |-> game_over,
     distance_to_hole |-> distance_to_hole,
     stopped_frame_count |-> stopped_frame_count,
     last_positions |-> last_positions, celebrating |-> celebrating,
     elapsed |-> elapsed]

SetEng(e) ==
    /\ level' = e.level
    /\ putts' = e.putts
    /\ total_score' = e.total_score
    /\ status' = e.status
    /\ ball_world_pos' = e.ball_world_pos
    /\ hole_position' = e.hole_position
    /\ is_ball_moving' = e.is_ball_moving
    /\ is_hole_in' = e.is_hole_in
    /\ game_over' = e.game_over
    /\ distance_to_hole' = e.distance_to_hole
    /\ stopped_frame_count' = e.stopped_frame_count
    /\ last_positions' = e.last_positions
    /\ celebrating' = e.celebrating
    /\ elapsed' = e.elapsed

\* status texts: the kind of message and the number it shows
Status(kind, n) == [kind |-> kind, n |-> n]

\* ---------------------------------------------------------------- GameState
\* GameState.__init__
NewGameState(e) ==
    [e EXCEPT !.level = 1, !.putts = 0, !.total_score = 0,
              !.status = Status("", 0), !.ball_world_pos = NoPos,
              !.hole_position = NoPos, !.is_ball_moving = FALSE,
              !.is_hole_in = FALSE, !.game_over = FALSE,
              !.distance_to_hole = INF]

\* ---------------------------------------------------------------- engine
\* _set_hole_for_level
SetHoleForLevel(e, lvl) ==
    [e EXCEPT !.hole_position =
        HOLE_POSITIONS[((lvl - 1) % Len(HOLE_POSITIONS)) + 1]]

\* start_game: a new GameState, hole of level 1; the history and the
\* stillness counter of the engine are not touched
StartGameOn(e) ==
    [SetHoleForLevel(NewGameState(e), 1) EXCEPT
        !.status = Status("start", 1), !.celebrating = FALSE]

\* _check_movement, the maximum consecutive displacement (squared) of recent
MaxDisplacement2(recent) ==
    LET RECURSIVE go(_, _)
        go(i, m) == IF i > Len(recent) THEN m
                    ELSE go(i + 1, Max(m, Dist2(recent[i], recent[i - 1])))
    IN go(2, 0)

\* mutant: a displacement in the window leaves the stillness counter alone
StoppedCountAfter_NoReset(hist, count) ==
    IF Len(hist) < BALL_STOPPED_FRAMES THEN count
    ELSE IF MaxDisplacement2(LastN(hist, BALL_STOPPED_FRAMES))
                < Sq(BALL_STOPPED_THRESHOLD_MM)
         THEN count + 1
         ELSE count

\* _check_movement: the new stillness counter
StoppedCountAfter(hist, count) ==
    IF Len(hist) < BALL_STOPPED_FRAMES THEN count
    ELSE IF MaxDisplacement2(LastN(hist, BALL_STOPPED_FRAMES))
                < Sq(BALL_STOPPED_THRESHOLD_MM)
         THEN count + 1
         ELSE 0

\* _check_movement: its return value, given the counter it leaves
IsMovingAfter(hist, count) ==
    IF Len(hist) < BALL_STOPPED_FRAMES THEN TRUE
    ELSE count < BALL_STOPPED_FRAMES

\* mutant: every update that finds the ball stopped counts a stroke
StrokeCounted_EveryStoppedFrame(was_moving, is_moving) == ~is_moving

\* update, "Transición: moviendo -> parada"
StrokeCounted(was_moving, is_moving) == was_moving /\ ~is_moving

\* mutant: a ball inside the hole radius must be at rest too
HoleInCond_RestOnly(dist, is_moving) ==
    /\ dist # INF
    /\ dist < Sq(HOLE_IN_TOLERANCE_MM)
    /\ ~is_moving

\* update, "Comprobar hoyo embocado"
HoleInCond(dist, is_moving) ==
    /\ dist # INF
    /\ dist < Sq(HOLE_IN_TOLERANCE_MM)
    /\ (~is_moving \/ dist < Sq(HOLE_RADIUS_MM))

\* mutant: no minimum of one stroke
HoleInPutts_NoMinimum(n) == n

\* _hole_in: "Al menos un golpe"
HoleInPutts(n) == IF n = 0 THEN 1 ELSE n

\* _hole_in
HoleIn(e) ==
    LET n == HoleInPutts(e.putts)
    IN [e EXCEPT !.is_hole_in = TRUE, !.celebrating = TRUE, !.elapsed = 0,
                 !.putts = n, !.total_score = e.total_score + n,
                 !.status = Status("holed", n)]

\* mutant: the game ends on reaching the last hole
LevelsExhausted_AtLast(lvl) == lvl >= Len(HOLE_POSITIONS)

\* _advance_level: past the last hole?
LevelsExhausted(lvl) == lvl > Len(HOLE_POSITIONS)

\* mutant: the strokes of the level left are added to the total
AdvanceLevel_ScoresPutts(e) ==
    LET e1 == [e EXCEPT !.level = e.level + 1, !.putts = 0,
                        !.total_score = e.total_score + e.putts,
                        !.is_hole_in = FALSE, !.stopped_frame_count = 0,
                        !.last_positions = <<>>]
    IN IF LevelsExhausted(e1.level)
       THEN [e1 EXCEPT !.game_over = TRUE,
                       !.status = Status("completed", e1.total_score)]
       ELSE [SetHoleForLevel(e1, e1.level) EXCEPT
                       !.status = Status("level", e1.level)]

\* mutant: the position history survives the advance
AdvanceLevel_KeepsHistory(e) ==
    LET e1 == [e EXCEPT !.level = e.level + 1, !.putts = 0,
                        !.is_hole_in = FALSE, !.stopped_frame_count = 0]
    IN IF LevelsExhausted(e1.level)
       THEN [e1 EXCEPT !.game_over = TRUE,
                       !.status = Status("completed", e1.total_score)]
       ELSE [SetHoleForLevel(e1, e1.level) EXCEPT
                       !.status = Status("level", e1.level)]

\* _advance_level
AdvanceLevel(e) ==
    LET e1 == [e EXCEPT !.level = e.level + 1, !.putts = 0,
                        !.is_hole_in = FALSE, !.stopped_frame_count = 0,
                        !.last_positions = <<>>]
    IN IF LevelsExhausted(e1.level)
       THEN [e1 EXCEPT !.game_over = TRUE,
                       !.status = Status("completed", e1.total_score)]
       ELSE [SetHoleForLevel(e1, e1.level) EXCEPT
                       !.status = Status("level", e1.level)]

\* mutant: the celebration ends as soon as the duration is reached
CelebrationOver_AtDuration(t) == t >= CELEBRATION_DURATION

\* update: the celebration has run its time
CelebrationOver(t) == t > CELEBRATION_DURATION

\* mutant: no forced advance
MaxPuttsReached_Never(n) == FALSE

\* mutant: the cap is passed only beyond the maximum
MaxPuttsReached_Beyond(n) == n > MAX_PUTTS_PER_HOLE

\* update: forced advance at the stroke cap
MaxPuttsReached(n) == n >= MAX_PUTTS_PER_HOLE

\* mutant: update goes on after the game is over
UpdateHalted_Never(e) == FALSE

\* update: nothing happens once the game is over
UpdateHalted(e) == e.game_over

\* update, lines 127-175: a located ball while playing
UpdateLocated(e, p) ==
    LET appended == Append(e.last_positions, p)
        hist == LastN(appended, MaxHistory)
        dist == IF e.hole_position # NoPos
                THEN Dist2(p, e.hole_position) ELSE INF
        count == StoppedCountAfter(hist, e.stopped_frame_count)
        is_moving == IsMovingAfter(hist, count)
        n == IF StrokeCounted(e.is_ball_moving, is_moving)
             THEN e.putts + 1 ELSE e.putts
        e1 == [e EXCEPT !.ball_world_pos = p, !.last_positions = hist,
                        !.distance_to_hole =
                            IF e.hole_position # NoPos
                            THEN dist ELSE e.distance_to_hole,
                        !.stopped_frame_count = count,
                        !.is_ball_moving = is_moving, !.putts = n]
    IN IF HoleInCond(dist, is_moving) THEN HoleIn(e1)
       ELSE IF is_moving THEN [e1 EXCEPT !.status = Status("moving", 0)]
       ELSE IF n = 0 THEN [e1 EXCEPT !.status = Status("hit", e1.level)]
       ELSE IF MaxPuttsReached(n)
            THEN AdvanceLevel([e1 EXCEPT !.putts = MAX_PUTTS_PER_HOLE])
       ELSE [e1 EXCEPT !.status = Status("putts", n)]

\* mutant: a frame without the ball breaks the run of still frames
UpdateUnlocated_ResetsStillness(e) ==
    [e EXCEPT !.status = Status("undetected", 0), !.stopped_frame_count = 0]

\* update, lines 123-125: no ball in the frame while playing
UpdateUnlocated(e) == [e EXCEPT !.status = Status("undetected", 0)]

\* update
UpdateOn(e, p) ==
    IF UpdateHalted(e) THEN e
    ELSE IF e.celebrating
         THEN IF CelebrationOver(e.elapsed)
              THEN AdvanceLevel([e EXCEPT !.celebrating = FALSE])
              ELSE [e EXCEPT !.status =
                        Status("countdown", CELEBRATION_DURATION - e.elapsed)]
    ELSE IF p = NoPos THEN UpdateUnlocated(e)
    ELSE UpdateLocated(e, p)

\* restart_level
RestartLevelOn(e) ==
    [e EXCEPT !.putts = 0, !.is_hole_in = FALSE, !.stopped_frame_count = 0,
              !.last_positions = <<>>, !.celebrating = FALSE,
              !.status = Status("restarted", e.level)]

\* ---------------------------------------------------------------- tracker
\* Image positions are whole pixels; the smoothed radius and the velocity
\* are kept in tenths of a pixel, rounded toward zero.

\* int(x) of a value given in tenths
IntOfTenths(x) == IF x >= 0 THEN x \div 10 ELSE -((-x) \div 10)

\* x / 10 rounded toward zero
TenthOf(x) == IntOfTenths(x)

Min(a, b) == IF a <= b THEN a ELSE b
Abs(x) == IF x >= 0 THEN x ELSE -x

\* floor of the square root
ISqrt(n) ==
    LET RECURSIVE go(_, _)
        go(lo, hi) ==
            IF lo >= hi THEN lo
            ELSE LET mid == (lo + hi + 1) \div 2
                 IN IF Sq(mid) <= n THEN go(mid, hi) ELSE go(lo, mid - 1)
    IN go(0, Min(n, 46340))

\* ColorTracker.__init__
NewTracker ==
    [initialized |-> FALSE, lost_counter |-> 0, last_position |-> NoPos,
     last_radius |-> 0, velocity |-> <<0, 0>>]

\* ColorTracker.initialize
TrackerInitialize(t, p, radius) ==
    [t EXCEPT !.last_position = p, !.last_radius = 10 * radius,
              !.initialized = TRUE, !.lost_counter = 0,
              !.velocity = <<0, 0>>]

\* mutant: the loss is reported when the ceiling is reached
IsLost_AtCeiling(t) == t.lost_counter >= MAX_LOST_FRAMES

\* ColorTracker.is_lost
IsLost(t) == t.lost_counter > MAX_LOST_FRAMES

\* update: predicted position, in tenths of a pixel
Predicted(t) ==
    <<10 * t.last_position[1] + t.velocity[1],
      10 * t.last_position[2] + t.velocity[2]>>

\* update: margin of the search window
SearchMargin(t) == TRACKING_SEARCH_MARGIN + IntOfTenths(t.last_radius * 2)

\* update: the search window (x1, y1, x2, y2), clipped to the frame
SearchWindow(t) ==
    LET pr == Predicted(t)
        m == 10 * SearchMargin(t)
    IN [x1 |-> Max(0, IntOfTenths(pr[1] - m)),
        y1 |-> Max(0, IntOfTenths(pr[2] - m)),
        x2 |-> Min(CAMERA_WIDTH, IntOfTenths(pr[1] + m)),
        y2 |-> Min(CAMERA_HEIGHT, IntOfTenths(pr[2] + m))]

\* update: "if x2 - x1 < 10 or y2 - y1 < 10"
WindowDegenerate(w) == w.x2 - w.x1 < 10 \/ w.y2 - w.y1 < 10

\* cv2.findContours on the colour mask of the window: the blobs of the frame
\* whose centre lies in the window.  A blob is what OpenCV measures of it:
\* centre, enclosing radius (px), area (px^2), circularity (thousandths).
ContoursIn(frame, w) ==
    {b \in frame : /\ w.x1 <= b.c[1] /\ b.c[1] < w.x2
                   /\ w.y1 <= b.c[2] /\ b.c[2] < w.y2}

\* update: the size filters (area below pi * 8^2 * 0.3 = 60.3, radius below
\* 4 or above 180 are skipped)
PassesSizeFilter(b) ==
    /\ b.area > 60
    /\ 2 * b.radius >= BALL_MIN_RADIUS_PX
    /\ 2 * b.radius <= 3 * BALL_MAX_RADIUS_PX

\* update: score = circularity - dist / margin - radius_diff * 0.5, times
\* ScoreScale(t); distances in tenths of a pixel
ScoreScale(t) == 2000 * SearchMargin(t) * Max(t.last_radius, 10)

Score(t, b) ==
    LET pr == Predicted(t)
        dist == ISqrt(Sq(10 * b.c[1] - pr[1]) + Sq(10 * b.c[2] - pr[2]))
        lr == Max(t.last_radius, 10)
    IN 2 * b.circ * SearchMargin(t) * lr
       - 200 * dist * lr
       - 1000 * SearchMargin(t) * Abs(10 * b.radius - t.last_radius)

\* update: the candidates a contour loop can end with (best_score starts at -1)
BestCandidates(t, cs) ==
    LET ok == {b \in cs : PassesSizeFilter(b) /\ Score(t, b) > -ScoreScale(t)}
    IN {b \in ok : \A o \in ok : Score(t, b) >= Score(t, o)}

\* update: the last known position, as returned while coasting
Coasted(t) ==
    <<t.last_position[1], t.last_position[2], IntOfTenths(t.last_radius)>>

\* update, "if self._lost_counter <= self._max_lost_frames", negated
ReportsLoss(n) == n > MAX_LOST_FRAMES

\* update with the matched blob b
TrackerMatch(t, b) ==
    LET vel == <<6 * (b.c[1] - t.last_position[1]) + TenthOf(4 * t.velocity[1]),
                 6 * (b.c[2] - t.last_position[2]) + TenthOf(4 * t.velocity[2])>>
        rad == TenthOf(7 * t.last_radius) + 3 * b.radius
    IN [tracker |-> [t EXCEPT !.velocity = vel, !.last_position = b.c,
                              !.last_radius = rad, !.lost_counter = 0],
        ret |-> <<b.c[1], b.c[2], IntOfTenths(rad)>>]

\* ColorTracker.update: the trackers and return values it can end with
TrackerUpdate(t, frame) ==
    IF ~t.initialized THEN {[tracker |-> t, ret |-> NoPos]}
    ELSE LET w == SearchWindow(t)
             missed == [t EXCEPT !.lost_counter = t.lost_counter + 1]
         IN IF WindowDegenerate(w)
            THEN {[tracker |-> missed, ret |-> NoPos]}
            ELSE IF ContoursIn(frame, w) = {}
            THEN {[tracker |-> missed,
                   ret |-> IF ReportsLoss(missed.lost_counter)
                           THEN NoPos ELSE Coasted(t)]}
            ELSE IF BestCandidates(t, ContoursIn(frame, w)) = {}
            THEN {[tracker |-> missed, ret |-> Coasted(t)]}
            ELSE {TrackerMatch(t, b) :
                    b \in BestCandidates(t, ContoursIn(frame, w))}

\* update: the blobs the contour loop can end with as best candidate
MatchedBlobs(t, frame) ==
    IF ~t.initialized \/ WindowDegenerate(SearchWindow(t)) THEN {}
    ELSE BestCandidates(t, ContoursIn(frame, SearchWindow(t)))

\* ---------------------------------------------------------------- OpenCVTracker
\* OpenCVTracker.__init__; has_tracker: self.tracker is not None
NewCvTracker ==
    [initialized |-> FALSE, has_tracker |-> FALSE, lost_counter |-> 0,
     last_position |-> NoPos, last_radius |-> 0]

\* OpenCVTracker.initialize(cx, cy, radius, frame); with_frame: frame is not
\* None.  The lost counter is not touched.
CvInitialize(t, p, radius, with_frame) ==
    IF ~with_frame
    THEN [t EXCEPT !.last_position = p, !.last_radius = radius]
    ELSE [t EXCEPT !.has_tracker = TRUE, !.last_position = p,
                   !.last_radius = radius, !.initialized = TRUE]

\* OpenCVTracker.is_lost
CvIsLost(t) == t.lost_counter > MAX_LOST_FRAMES

\* the bounding box cv2's tracker reports for a blob: (x, y, w, h)
BBoxOf(b) == <<b.c[1] - b.radius, b.c[2] - b.radius, 2 * b.radius, 2 * b.radius>>

\* OpenCVTracker.update; out = [success, bbox] is what self.tracker.update
\* returned
CvUpdate(t, out) ==
    IF ~t.initialized \/ ~t.has_tracker THEN [tracker |-> t, ret |-> NoPos]
    ELSE IF out.success
    THEN LET cx == out.bbox[1] + out.bbox[3] \div 2
             cy == out.bbox[2] + out.bbox[4] \div 2
             radius == Max(out.bbox[3], out.bbox[4]) \div 2
         IN [tracker |-> [t EXCEPT !.last_position = <<cx, cy>>,
                                   !.last_radius = radius,
                                   !.lost_counter = 0],
             ret |-> <<cx, cy, radius>>]
    ELSE [tracker |-> [t EXCEPT !.lost_counter = t.lost_counter + 1],
          ret |-> IF t.last_position # NoPos
                  THEN <<t.last_position[1], t.last_position[2], t.last_radius>>
                  ELSE NoPos]

\* ---------------------------------------------------------------- calibration
\* Image points of the calibration are on a grid of 40 px; a 3x3 matrix is a
\* tuple of three rows of integers and stands for the homography it is
\* proportional to (cv2 scales H so that its bottom-right entry is 1; the
\* entries here are that matrix times a common factor).
PLAY_AREA_WIDTH == 60
PLAY_AREA_HEIGHT == 40
WORLD_CORNERS ==
    << <<0, 0>>, <<PLAY_AREA_WIDTH, 0>>,
       <<PLAY_AREA_WIDTH, PLAY_AREA_HEIGHT>>, <<0, PLAY_AREA_HEIGHT>> >>

\* marker_ids_order of calibrate_aruco: TL, TR, BR, BL
MARKER_IDS_ORDER == <<0, 1, 2, 3>>

Det3(m) ==
      m[1][1] * (m[2][2] * m[3][3] - m[2][3] * m[3][2])
    - m[1][2] * (m[2][1] * m[3][3] - m[2][3] * m[3][1])
    + m[1][3] * (m[2][1] * m[3][2] - m[2][2] * m[3][1])

\* the adjugate: det(m) times the inverse of m
Adj3(m) ==
    << << m[2][2] * m[3][3] - m[2][3] * m[3][2],
          m[1][3] * m[3][2] - m[1][2] * m[3][3],
          m[1][2] * m[2][3] - m[1][3] * m[2][2] >>,
       << m[2][3] * m[3][1] - m[2][1] * m[3][3],
          m[1][1] * m[3][3] - m[1][3] * m[3][1],
          m[1][3] * m[2][1] - m[1][1] * m[2][3] >>,
       << m[2][1] * m[3][2] - m[2][2] * m[3][1],
          m[1][2] * m[3][1] - m[1][1] * m[3][2],
          m[1][1] * m[2][2] - m[1][2] * m[2][1] >> >>

MatMul(a, b) ==
    [i \in 1..3 |-> [j \in 1..3 |->
        a[i][1] * b[1][j] + a[i][2] * b[2][j] + a[i][3] * b[3][j]]]

\* b is the inverse of a as a homography: a * b is a non-zero multiple of
\* the identity
IsInverse(a, b) ==
    LET p == MatMul(a, b)
    IN /\ p[1][1] # 0 /\ p[2][2] = p[1][1] /\ p[3][3] = p[1][1]
       /\ \A i, j \in 1..3 : i # j => p[i][j] = 0

\* the matrix that maps the image corners (TL, TR, BR, BL of a rectangle
\* with sides along the axes) onto WORLD_CORNERS:
\*   X = (u - u0) * W / du,  Y = (v - v0) * H / dv
SolvedMatrix(corners) ==
    LET u0 == corners[1][1]
        v0 == corners[1][2]
        du == corners[2][1] - corners[1][1]
        dv == corners[4][2] - corners[1][2]
    IN << << PLAY_AREA_WIDTH * dv, 0, -u0 * PLAY_AREA_WIDTH * dv >>,
          << 0, PLAY_AREA_HEIGHT * du, -v0 * PLAY_AREA_HEIGHT * du >>,
          << 0, 0, du * dv >> >>

\* cv2.findHomography(image_corners, world_corners, RANSAC, 5.0): what it
\* can return.  On four corners without extent it either gives up (None)
\* or returns the solved matrix, which is singular.
FindHomography(corners) ==
    IF Det3(SolvedMatrix(corners)) # 0 THEN {SolvedMatrix(corners)}
    ELSE {NoMatrix, SolvedMatrix(corners)}

\* _compute_homography, "if self.H is None" (self.H is None already)
HomographyFailed(c) ==
    [cal |-> [c EXCEPT !.H = NoMatrix, !.done = FALSE], outcome |-> "failed"]

\* _compute_homography with self.H = m: np.linalg.inv raises LinAlgError on
\* a singular matrix, after self.H was assigned
HomographySolved(c, m) ==
    IF Det3(m) = 0
    THEN [cal |-> [c EXCEPT !.H = m], outcome |-> "raised"]
    ELSE [cal |-> [c EXCEPT !.H = m, !.H_inv = Adj3(m), !.done = TRUE],
          outcome |-> "ok"]

\* HomographyCalibrator._compute_homography on the calibrator c (its
\* image_corners already set): the calibrators and outcomes it can end with
ComputeHomography(c) ==
    {IF m = NoMatrix THEN HomographyFailed(c) ELSE HomographySolved(c, m) :
        m \in FindHomography(c.image_corners)}

\* calibrate_aruco: id_to_center, the centre of the last marker with each id
IdToCenter(markers) ==
    [id \in {markers[i].id : i \in 1..Len(markers)} |->
        LET last == CHOOSE i \in 1..Len(markers) :
                        /\ markers[i].id = id
                        /\ \A j \in 1..Len(markers) :
                               markers[j].id = id => j <= i
        IN markers[last].c]

\* calibrate_aruco: fewer than 4 markers, or a required id missing
MarkersUnusable(markers) ==
    \/ Len(markers) < 4
    \/ \E k \in 1..Len(MARKER_IDS_ORDER) :
            MARKER_IDS_ORDER[k] \notin DOMAIN IdToCenter(markers)

\* mutant: a failed marker search marks the calibration as not done
ArucoFailed_ClearsMapping(c) ==
    [cal |-> [c EXCEPT !.H = NoMatrix, !.done = FALSE], outcome |-> "failed"]

\* calibrate_aruco, the two early "return False"
ArucoFailed(c) == [cal |-> c, outcome |-> "failed"]

\* HomographyCalibrator.calibrate_aruco on the markers detected in a frame
CalibrateAruco(c, markers) ==
    IF MarkersUnusable(markers) THEN {ArucoFailed(c)}
    ELSE ComputeHomography(
            [c EXCEPT !.image_corners =
                [k \in 1..4 |-> IdToCenter(markers)[MARKER_IDS_ORDER[k]]]])

\* HomographyCalibrator.calibrate_manual: four clicks, or ESC (clicks = <<>>)
CalibrateManual(c, clicks) ==
    IF clicks = <<>> THEN {[cal |-> c, outcome |-> "failed"]}
    ELSE ComputeHomography([c EXCEPT !.image_corners = clicks])

\* ---------------------------------------------------------------- positioner
\* PlanarPositioner._compute_camera_center for a matrix whose first two
\* columns are (a, 0, 0) and (0, b, 0) with a, b > 0: lam = (a + b) / 2, the
\* orthogonalised rotation is the identity and C = -h3 / lam.  The centre is
\* kept as <<x, y, z, d>>, standing for (x/d, y/d, z/d).
CameraCenter(m) ==
    LET a == m[1][1]
        b == m[2][2]
    IN IF a + b = 0 THEN NoCenter
       ELSE <<-2 * m[1][3], -2 * m[2][3], -2 * m[3][3], a + b>>

\* PlanarPositioner.__init__ on the calibrator c: _camera_center_world
NewPositioner(c) == IF c.done THEN CameraCenter(c.H) ELSE NoCenter

\* Height correction.  Lengths are integers in units of 0.5e-6 cm, so that
\* the tolerance 1e-6 of correct_height is 2 units; a point of the plane is
\* <<x, y, d>>, standing for (x/d, y/d), and the arithmetic is exact.
HEIGHT_EPS == 2

\* an argument (X', Y') as a point
AsPoint(p) == <<p[1], p[2], 1>>

\* correct_height, "abs(object_height) < 1e-6"
HeightNegligible_Never(h) == FALSE
HeightNegligible(h) == Abs(h) < HEIGHT_EPS

\* correct_height, "abs(Cz - object_height) < 1e-6", for C = <<x, y, z, d>>
CameraAtHeight(c, h) == Abs(c[3] - h * c[4]) < HEIGHT_EPS * Abs(c[4])

\* mutant: the factor of the ray parameter at height h, (Cz - h) / Cz
CorrectionFactor_TowardCamera(c, h) == <<c[3] - h * c[4], c[3]>>

\* correct_height, k = Cz / (Cz - object_height), as <<numerator, denominator>>
CorrectionFactor(c, h) == <<c[3], c[3] - h * c[4]>>

\* correct_height, X_corrected = Cx + k * (X' - Cx), likewise Y
Corrected(c, p, k) ==
    <<c[1] * k[2] + k[1] * (p[1] * c[4] - c[1]),
      c[2] * k[2] + k[1] * (p[2] * c[4] - c[2]),
      c[4] * k[2]>>

\* PlanarPositioner.correct_height(apparent_position, object_height) with
\* _camera_center_world = c
CorrectHeight(c, p, h) ==
    IF p = NoPos THEN NoPos
    ELSE IF HeightNegligible(h) THEN AsPoint(p)
    ELSE IF c = NoCenter THEN AsPoint(p)
    ELSE IF CameraAtHeight(c, h) THEN AsPoint(p)
    ELSE Corrected(c, p, CorrectionFactor(c, h))

\* ---------------------------------------------------------------- detection
\* AutomaticDetector._detect_in_image: the contour filters (area below
\* pi * 8^2 = 201.06 skipped, radius strictly between the two limits)
IsCandidate(b) ==
    /\ b.area > 201
    /\ BALL_MIN_RADIUS_PX < b.radius /\ b.radius < BALL_MAX_RADIUS_PX

\* _detect_in_image: score = circularity * 0.5 + fill_ratio * 0.3
\* + (area / 10000) * 0.2, in millionths (pi taken as 355/113, the fill
\* ratio in whole thousandths)
DetectScore(b) ==
    500 * b.circ + 300 * ((113000 * b.area) \div (355 * Sq(b.radius)))
        + 20 * b.area

\* AutomaticDetector._fallback_hough: the largest circle HoughCircles finds
\* on the mask, with minRadius and maxRadius as configured; none if none
FallbackHough(frame) ==
    LET circles == {b \in frame : /\ BALL_MIN_RADIUS_PX <= b.radius
                                  /\ b.radius <= BALL_MAX_RADIUS_PX}
    IN IF circles = {} THEN {NoPos}
       ELSE {<<b.c[1], b.c[2], b.radius>> :
                b \in {c \in circles : \A o \in circles : c.radius >= o.radius}}

\* AutomaticDetector.detect on the full frame: what it can return
AutoDetect(frame) ==
    LET candidates == {b \in frame : IsCandidate(b)}
    IN IF candidates = {} THEN FallbackHough(frame)
       ELSE {<<b.c[1], b.c[2], b.radius>> :
                b \in {c \in candidates :
                          \A o \in candidates : DetectScore(c) >= DetectScore(o)}}

\* ManualDetector.  A scene is what a frame shows: a set of regions of one
\* colour each, [c, r10, hue], with centre, enclosing radius in tenths of a
\* pixel and hue, on a background of one colour that fills the frame.
Background ==
    [c |-> <<CAMERA_WIDTH \div 2, CAMERA_HEIGHT \div 2>>, r10 |-> 4000,
     hue |-> 60]
\* _estimate_radius: margin_h, and the default radius
MARGIN_H == 15
DEFAULT_RADIUS == 25

\* _estimate_radius, hsv[cy, cx]: the hue under the point p
HueAt(scene, p) ==
    LET over == {g \in scene : 100 * Dist2(g.c, p) <= Sq(g.r10)}
    IN IF over = {} THEN {Background.hue} ELSE {g.hue : g \in over}

\* _estimate_radius, cv2.inRange and cv2.findContours: the contours of the
\* mask around the hue h, as [c, r10]; the background, when it is in the
\* mask, is one contour around the whole frame
MaskContours(scene, h) ==
    {[c |-> g.c, r10 |-> g.r10] :
        g \in {r \in scene \cup {Background} : Abs(r.hue - h) <= MARGIN_H}}

\* _estimate_radius, "if config.BALL_MIN_RADIUS_PX < r < config.BALL_MAX_RADIUS_PX"
PlausibleRadius(cnt) ==
    10 * BALL_MIN_RADIUS_PX < cnt.r10 /\ cnt.r10 < 10 * BALL_MAX_RADIUS_PX

\* _estimate_radius: int(best_radius), the radius of a plausible contour
\* nearest to p, or the default when there is none
EstimateRadius(scene, p) ==
    UNION {LET ok == {cnt \in MaskContours(scene, h) : PlausibleRadius(cnt)}
           IN IF ok = {} THEN {DEFAULT_RADIUS}
              ELSE {IntOfTenths(cnt.r10) :
                      cnt \in {n \in ok : \A o \in ok :
                                  Dist2(n.c, p) <= Dist2(o.c, p)}} :
           h \in HueAt(scene, p)}

\* detect_point, the point is outside the frame
OutsideFrame(p) ==
    p[1] < 0 \/ p[2] < 0 \/ p[1] >= CAMERA_WIDTH \/ p[2] >= CAMERA_HEIGHT

\* ManualDetector.detect_point(frame, x, y): what it can return
DetectPoint(scene, p) ==
    IF OutsideFrame(p) THEN {NoPos}
    ELSE {IF radius < BALL_MIN_RADIUS_PX THEN NoPos
          ELSE <<p[1], p[2], radius>> : radius \in EstimateRadius(scene, p)}

\* ManualDetector.detect(frame), the popup: cancelled with ESC, or a point
\* confirmed, with the radius estimated there
PopupDetect(scene, points) ==
    {NoPos} \cup UNION {{<<p[1], p[2], radius>> :
                            radius \in EstimateRadius(scene, p)} :
                        p \in {q \in points : ~OutsideFrame(q)}}

\* ---------------------------------------------------------------- inputs
FarA == <<300, 200>>
FarB == <<350, 200>>
\* 1.41 cm from the hole (the spec's (46,19) for the hole at (45,20))
InHole(h) == <<h[1] + 10, h[2] - 10>>
\* 3.7 cm from the hole: inside the tolerance, outside the radius
OnRim(h) == <<h[1] + 37, h[2]>>

\* what the camera may report around the current hole
HolePositions ==
    {FarA} \cup
    (IF hole_position = NoPos THEN {}
     ELSE {InHole(hole_position), OnRim(hole_position)})

\* what the camera may report on the open green
GreenPositions == {FarA, FarB}

\* reports around FarA: 0.8 cm away (the stillness threshold itself) and
\* 0.7 cm away (just below it)
NearA == <<308, 200>>
JustA == <<307, 200>>
JitterPositions == {FarA, NearA, JustA}

\* the changes of position inside a history
Changes(h) == Cardinality({i \in 1..(Len(h) - 1) : h[i] # h[i + 1]})

\* the consecutive changes of position that end a history
Roll(h) ==
    LET RECURSIVE go(_)
        go(i) == IF i >= 2 /\ h[i] # h[i - 1] THEN 1 + go(i - 1) ELSE 0
    IN go(Len(h))

\* the environment's next report, given the engine it is shown to
MayReport(e, p) ==
    IF e.game_over \/ e.celebrating \/ p = NoPos THEN TRUE
    ELSE IF e.last_positions = <<>> THEN TRUE
    ELSE IF p = e.last_positions[Len(e.last_positions)] THEN TRUE
    ELSE /\ ~e.is_ball_moving \/ Roll(e.last_positions) \in 1..(MaxRoll - 1)
         /\ Changes(LastN(Append(e.last_positions, p), MaxHistory)) <= MaxRoll

\* the stillness counter and the score as far as they are explored
WithinBounds(e) ==
    /\ e.stopped_frame_count <= BALL_STOPPED_FRAMES + MaxStillExtra
    /\ e.total_score <= MaxScore

\* scripted trajectories (spec.md, section 8): "still" feeds 20 identical
\* positions; "strokes" feeds 10 frames of 5 cm steps, 20 identical frames,
\* 10 frames of 5 cm steps back, 20 identical frames.  None comes within
\* the tolerance of the first hole.
StillSpots ==
    {<<300, 200>>, <<350, 200>>, <<300, 300>>, <<100, 100>>, <<550, 50>>,
     <<450, 300>>}
StrokeRows == {100, 150, 250, 300}
StillFrames == 20
RollFrames == 10
Scripts ==
    [kind : {"still"}, at : StillSpots, n : {0}] \cup
    [kind : {"strokes"}, at : {<<0, y>> : y \in StrokeRows}, n : {0}]
NoScript == [kind |-> "none", at |-> NoPos, n |-> 0]
ScriptLength(sc) ==
    IF sc.kind = "still" THEN StillFrames
    ELSE 2 * (RollFrames + StillFrames)

\* the position of frame k (1-based) of a script
ScriptedPosition(sc, k) ==
    IF sc.kind = "still" THEN sc.at
    ELSE LET leg == RollFrames + StillFrames
             x == IF k <= RollFrames THEN 50 * k
                  ELSE IF k <= leg THEN 50 * RollFrames
                  ELSE IF k <= leg + RollFrames
                       THEN 50 * RollFrames - 50 * (k - leg)
                  ELSE 0
         IN <<sc.at[1] + x, sc.at[2]>>

\* whether frame k of a script shows the ball at a new position
ScriptedMove(sc, k) ==
    k > 1 /\ ScriptedPosition(sc, k) # ScriptedPosition(sc, k - 1)

\* what the camera shows of the ball to the tracker: blobs on one image row
TrackSpots == {<<250, 240>>, <<340, 240>>, <<490, 240>>, <<630, 240>>}
Ball(p) == [c |-> p, radius |-> 10, area |-> 300, circ |-> 900]
Speck(p) == [c |-> p, radius |-> 3, area |-> 20, circ |-> 800]
Frames ==
    {{}} \cup {{Ball(p)} : p \in TrackSpots}
         \cup {{Speck(p)} : p \in TrackSpots}

\* the image corners of the play area as the camera can show them: two
\* placements of the camera, and one where the four points have no extent
RectA == [u0 |-> 2, v0 |-> 1, du |-> 12, dv |-> 10]
RectB == [u0 |-> 3, v0 |-> 2, du |-> 10, dv |-> 8]
Flat == [u0 |-> 2, v0 |-> 1, du |-> 0, dv |-> 10]
Rects == {RectA, RectB, Flat}
Corners(r) ==
    << <<r.u0, r.v0>>, <<r.u0 + r.du, r.v0>>,
       <<r.u0 + r.du, r.v0 + r.dv>>, <<r.u0, r.v0 + r.dv>> >>

\* the markers detected in a frame, as [id, c] in the order of detection
MarkersOf(r, ids, at) ==
    [k \in 1..Len(ids) |-> [id |-> ids[k], c |-> Corners(r)[at[k]]]]
MarkerFrames ==
    {<<>>}
        \cup {MarkersOf(r, <<0, 1, 2, 3>>, <<1, 2, 3, 4>>) : r \in Rects}
        \cup {MarkersOf(RectB, <<2, 0, 3, 1>>, <<3, 1, 4, 2>>),
              MarkersOf(RectA, <<0, 1, 2>>, <<1, 2, 3>>),
              MarkersOf(RectA, <<0, 1, 2, 7>>, <<1, 2, 3, 4>>),
              MarkersOf(RectB, <<0, 0, 1, 2>>, <<1, 1, 2, 3>>)}

\* what the user does in calibrate_manual: four clicks, or ESC
ClickInputs == {<<>>} \cup {Corners(r) : r \in Rects}

\* camera centres, apparent positions and object heights handed to
\* correct_height
Centers == {<<0, 0, 12, 1>>, <<4, 2, 12, 1>>, <<4, 2, 3, 1>>, <<8, 4, 24, 2>>,
            <<4, 2, -6, 1>>}
ApparentPositions == {NoPos, <<0, 0>>, <<4, 2>>, <<10, 0>>, <<-6, 5>>, <<4, 9>>}
Heights == {-3, 0, 1, 2, 3, 8}

\* scenes shown to the manual detector and the points clicked
Region(p, r10, hue) == [c |-> p, r10 |-> r10, hue |-> hue]
Scenes ==
    {{}, {Region(<<320, 240>>, 100, 25)}, {Region(<<320, 240>>, 85, 25)},
     {Region(<<320, 240>>, 30, 25)}, {Region(<<320, 240>>, 1300, 25)},
     {Region(<<320, 240>>, 100, 25), Region(<<100, 100>>, 200, 30)},
     {Region(<<100, 100>>, 200, 50)}}
ClickPoints ==
    {<<320, 240>>, <<100, 100>>, <<500, 400>>, <<639, 479>>, <<640, 100>>,
     <<-1, 5>>}

\* whether a frame shows a ball inside the search window of the tracker
ShowsBall(t, frame) ==
    /\ ~WindowDegenerate(SearchWindow(t))
    /\ \E b \in ContoursIn(frame, SearchWindow(t)) :
            b.radius >= BALL_MIN_RADIUS_PX

\* ---------------------------------------------------------------- actions
\* what a call of _process_detection did: the branch taken, whether the
\* tracker signalled loss, whether full-frame detection was run and found
\* the ball, what the call returned, and how many frames in a row before
\* this one signalled loss with detection failing (counted up to 2)
NoDetection ==
    [branch |-> "none", signalled |-> FALSE, ran |-> FALSE, found |-> FALSE,
     ret |-> NoPos, retries |-> 0]
\* no call of detect_point yet
NoClick == [scene |-> {}, at |-> NoPos, ret |-> NoPos]
\* the last calibration attempt of the application: the calibration mode
\* (--auto-calibrate with a real camera: "aruco", else "manual"), the phase
\* of run() ("setup", "running", "stopped"), the place of the attempt
\* ("setup", "loop", "key_c"), what it was given and how it ended
NoAttempt ==
    [mode |-> "manual", phase |-> "setup", op |-> "none", outcome |-> "none",
     input |-> <<>>]
\* the last call of correct_height: the camera centre it used, its two
\* arguments and what it returned
NoCorrection ==
    [center |-> NoCenter, apparent |-> NoPos, height |-> 0, ret |-> NoPos]

InitEngine ==
    /\ level = 1
    /\ putts = 0
    /\ total_score = 0
    /\ status = Status("", 0)
    /\ ball_world_pos = NoPos
    /\ hole_position = NoPos
    /\ is_ball_moving = FALSE
    /\ is_hole_in = FALSE
    /\ game_over = FALSE
    /\ distance_to_hole = INF
    /\ stopped_frame_count = 0
    /\ last_positions = <<>>
    /\ celebrating = FALSE
    \* _hole_in_time = 0: the epoch, long ago
    /\ elapsed = CELEBRATION_DURATION + 1
    /\ call = [op |-> "init", located |-> FALSE]

InitTracker ==
    /\ trk = NewTracker
    /\ result = NoPos
    /\ misses = 0

\* MiniGolfApp.__init__ with the default arguments, before calibration
InitApp ==
    /\ cvt = NewCvTracker
    /\ cvresult = NoPos
    /\ method = "color"
    /\ detection_mode = "manual"
    /\ first_frame = TRUE
    /\ detection = NoDetection
    /\ click = NoClick
    /\ H = NoMatrix
    /\ H_inv = NoMatrix
    /\ image_corners = NoCorners
    /\ calibration_done = FALSE
    /\ attempt = NoAttempt
    /\ camera_center = NoCenter
    /\ hc = NoCorrection

Init ==
    /\ InitEngine
    /\ InitTracker
    /\ InitApp
    /\ script = NoScript

\* the application starts the game once, at setup (main.py, line 151), and
\* restarts it with restart_game
StartGame ==
    /\ call.op = "init"
    /\ SetEng(StartGameOn(Eng))
    /\ call' = [op |-> "start_game", located |-> FALSE]
    /\ UNCHANGED <<script, trackerVars, appVars>>

RestartGame ==
    /\ SetEng(StartGameOn(Eng))
    /\ call' = [op |-> "restart_game", located |-> FALSE]
    /\ UNCHANGED <<script, trackerVars, appVars>>

RestartLevel ==
    /\ SetEng(RestartLevelOn(Eng))
    /\ call' = [op |-> "restart_level", located |-> FALSE]
    /\ UNCHANGED <<script, trackerVars, appVars>>

\* engine.update(p), as called once per frame (main.py, line 328)
UpdateCall(p) ==
    /\ SetEng(UpdateOn(Eng, p))
    /\ call' = [op |-> "update", located |-> p # NoPos]

Update(p) ==
    /\ MayReport(Eng, p)
    /\ WithinBounds(UpdateOn(Eng, p))
    /\ UpdateCall(p)
    /\ UNCHANGED <<script, trackerVars, appVars>>

\* a second passes on the clock.  The engine reads the clock only while
\* celebrating (update, line 114), and compares it with the duration only.
Tick ==
    /\ celebrating
    /\ elapsed <= CELEBRATION_DURATION
    /\ elapsed' = elapsed + 1
    /\ call' = [op |-> "tick", located |-> FALSE]
    /\ UNCHANGED <<engineVars, script, trackerVars, appVars>>

Next ==
    \/ StartGame
    \/ game_over /\ RestartGame
    \/ RestartLevel
    \/ \E p \in HolePositions : Update(p)
    \/ Update(NoPos)
    \/ Tick

Spec == Init /\ [][Next]_vars

\* the same engine on the open green, where no report comes near a hole
NextStrokes ==
    \/ StartGame
    \/ RestartGame
    \/ RestartLevel
    \/ \E p \in GreenPositions : Update(p)
    \/ Update(NoPos)

SpecStrokes == Init /\ [][NextStrokes]_vars

\* ---------------------------------------------------------------- stroke cap
\* The engine with a player who reaches the rim of the hole only with the
\* last stroke the level allows; one such hole-in is explored per game.
MaxCapScore == MAX_PUTTS_PER_HOLE

CapPositions ==
    {FarA, FarB} \cup
    (IF hole_position # NoPos /\ putts + 1 >= MAX_PUTTS_PER_HOLE
     THEN {OnRim(hole_position)} ELSE {})

CapUpdate(p) ==
    /\ MayReport(Eng, p)
    /\ UpdateOn(Eng, p).stopped_frame_count
            <= BALL_STOPPED_FRAMES + MaxStillExtra
    /\ UpdateOn(Eng, p).total_score <= MaxCapScore
    /\ UpdateCall(p)
    /\ UNCHANGED <<script, trackerVars, appVars>>

\* the celebration duration passes between two frames
Wait ==
    /\ celebrating
    /\ elapsed <= CELEBRATION_DURATION
    /\ elapsed' = CELEBRATION_DURATION + 1
    /\ call' = [op |-> "tick", located |-> FALSE]
    /\ UNCHANGED <<engineVars, script, trackerVars, appVars>>

NextCap ==
    \/ StartGame
    \/ RestartGame
    \/ RestartLevel
    \/ \E p \in CapPositions : CapUpdate(p)
    \/ CapUpdate(NoPos)
    \/ Wait

SpecCap == Init /\ [][NextCap]_vars

\* the same engine shown a ball that shifts by the stillness threshold or
\* by a little less
NextMotion ==
    \/ StartGame
    \/ RestartGame
    \/ RestartLevel
    \/ \E p \in JitterPositions : Update(p)

SpecMotion == Init /\ [][NextMotion]_vars

\* ---------------------------------------------------------------- scripts
InitScript ==
    /\ InitEngine
    /\ InitTracker
    /\ InitApp
    /\ script \in Scripts

\* the next frame of the script is one more frame at the same place
FeedStill ==
    /\ call.op # "init"
    /\ script.n < ScriptLength(script)
    /\ ~ScriptedMove(script, script.n + 1)
    /\ UpdateCall(ScriptedPosition(script, script.n + 1))
    /\ script' = [script EXCEPT !.n = script.n + 1]
    /\ UNCHANGED <<trackerVars, appVars>>

\* the next frame of the script shows the ball 5 cm further
FeedStep ==
    /\ call.op # "init"
    /\ script.n < ScriptLength(script)
    /\ ScriptedMove(script, script.n + 1)
    /\ UpdateCall(ScriptedPosition(script, script.n + 1))
    /\ script' = [script EXCEPT !.n = script.n + 1]
    /\ UNCHANGED <<trackerVars, appVars>>

NextScript ==
    \/ StartGame
    \/ FeedStill
    \/ FeedStep

SpecScript == InitScript /\ [][NextScript]_vars

\* ---------------------------------------------------------------- tracking
\* tracker.initialize(cx, cy, radius) from a detection (main.py, lines 420-443)
TrkInitialize(p) ==
    /\ trk' = TrackerInitialize(trk, p, Ball(p).radius)
    /\ result' = <<p[1], p[2], Ball(p).radius>>
    /\ misses' = 0
    /\ UNCHANGED <<engineVars, elapsed, call, script, appVars>>

\* tracker.update(frame) (main.py, line 430)
TrkUpdate(frame) ==
    /\ trk.initialized
    /\ trk.lost_counter <= MAX_LOST_FRAMES + MaxLostExtra
    /\ \E r \in TrackerUpdate(trk, frame) :
            /\ trk' = r.tracker
            /\ result' = r.ret
    /\ misses' = IF ShowsBall(trk, frame) THEN 0 ELSE misses + 1
    /\ UNCHANGED <<engineVars, elapsed, call, script, appVars>>

NextTracker ==
    \/ \E p \in TrackSpots : TrkInitialize(p)
    \/ \E f \in Frames : TrkUpdate(f)

SpecTracker == Init /\ [][NextTracker]_vars

\* ---------------------------------------------------------------- two trackers
\* A ColorTracker and an OpenCVTracker side by side, initialised from the
\* same detections (main.py, lines 419-422) and shown the same frames: the
\* OpenCV tracker succeeds on a frame exactly when the colour tracker
\* matches a blob, and then reports the box around that blob.
PairInitialize(p) ==
    /\ trk' = TrackerInitialize(trk, p, Ball(p).radius)
    /\ result' = <<p[1], p[2], Ball(p).radius>>
    /\ cvt' = CvInitialize(cvt, p, Ball(p).radius, TRUE)
    /\ cvresult' = <<p[1], p[2], Ball(p).radius>>
    /\ misses' = 0
    /\ UNCHANGED <<engineVars, elapsed, call, script, loopVars,
                   calibratorVars, attempt, positionerVars>>

PairUpdate(frame) ==
    /\ trk.initialized /\ cvt.initialized
    /\ trk.lost_counter <= MAX_LOST_FRAMES + MaxLostExtra
    /\ cvt.lost_counter <= MAX_LOST_FRAMES + MaxLostExtra
    /\ IF MatchedBlobs(trk, frame) = {}
       THEN /\ \E r \in TrackerUpdate(trk, frame) :
                    trk' = r.tracker /\ result' = r.ret
            /\ LET c == CvUpdate(cvt, [success |-> FALSE, bbox |-> <<>>])
               IN cvt' = c.tracker /\ cvresult' = c.ret
            /\ misses' = misses + 1
       ELSE /\ \E b \in MatchedBlobs(trk, frame) :
                    /\ trk' = TrackerMatch(trk, b).tracker
                    /\ result' = TrackerMatch(trk, b).ret
                    /\ LET c == CvUpdate(cvt, [success |-> TRUE,
                                                bbox |-> BBoxOf(b)])
                       IN cvt' = c.tracker /\ cvresult' = c.ret
            /\ misses' = 0
    /\ UNCHANGED <<engineVars, elapsed, call, script, loopVars,
                   calibratorVars, attempt, positionerVars>>

NextPair ==
    \/ \E p \in TrackSpots : PairInitialize(p)
    \/ \E f \in Frames : PairUpdate(f)

SpecPair == Init /\ [][NextPair]_vars

\* ---------------------------------------------------------------- main loop
\* what the OpenCV tracker object can answer on a frame: failure, or the
\* box around a ball-sized blob of the frame
CvOutcomes(frame) ==
    {[success |-> FALSE, bbox |-> <<>>]}
        \cup {[success |-> TRUE, bbox |-> BBoxOf(b)] :
                 b \in {c \in frame : c.radius >= BALL_MIN_RADIUS_PX}}

\* self.tracker.update(frame) for the tracker in use: the trackers, the
\* return value and the is_lost flag it can end with
LoopTrackerUpdate(frame) ==
    IF method = "color"
    THEN {[trk |-> r.tracker, cvt |-> cvt, ret |-> r.ret,
           lost |-> IsLost(r.tracker)] : r \in TrackerUpdate(trk, frame)}
    ELSE {[trk |-> trk, cvt |-> CvUpdate(cvt, out).tracker,
           ret |-> CvUpdate(cvt, out).ret,
           lost |-> CvIsLost(CvUpdate(cvt, out).tracker)] :
             out \in CvOutcomes(frame)}

\* tracker.initialize(cx, cy, radius[, frame]) on the trackers t and c, for
\* the class in use
LoopInitialize(t, c, d) ==
    IF method = "color"
    THEN [trk |-> TrackerInitialize(t, <<d[1], d[2]>>, d[3]), cvt |-> c]
    ELSE [trk |-> t, cvt |-> CvInitialize(c, <<d[1], d[2]>>, d[3], TRUE)]

\* mutant: the detection re-initialises the tracker that reported the loss
Redetected_KeepsTracker(u, d) == LoopInitialize(u.trk, u.cvt, d)

\* _process_detection, re-detection succeeded after the update u: a new
\* tracker is created and initialised from the detection d
Redetected(u, d) == LoopInitialize(NewTracker, NewCvTracker, d)

\* _process_detection, first-frame branch
FirstFrame(frame) ==
    /\ first_frame
    /\ IF detection_mode = "auto"
       THEN \E d \in AutoDetect(frame) :
              IF d # NoPos
              THEN /\ trk' = LoopInitialize(trk, cvt, d).trk
                   /\ cvt' = LoopInitialize(trk, cvt, d).cvt
                   /\ first_frame' = FALSE
                   /\ detection' = [branch |-> "first", signalled |-> FALSE,
                                    ran |-> TRUE, found |-> TRUE, ret |-> d,
                                    retries |-> 0]
              ELSE /\ detection' = [branch |-> "first", signalled |-> FALSE,
                                    ran |-> TRUE, found |-> FALSE,
                                    ret |-> NoPos, retries |-> 0]
                   /\ UNCHANGED <<trk, cvt, first_frame>>
       ELSE /\ detection' = [branch |-> "first", signalled |-> FALSE,
                             ran |-> FALSE, found |-> FALSE, ret |-> NoPos,
                             retries |-> 0]
            /\ UNCHANGED <<trk, cvt, first_frame>>
    /\ UNCHANGED <<result, cvresult>>

\* failed re-detections in a row, once this frame is over
RetriesAfter(signalled, found) ==
    IF signalled /\ ~found THEN Min(detection.retries + 1, 2)
    ELSE IF signalled THEN detection.retries
    ELSE 0

\* _process_detection, tracking branch
TrackFrame(frame) ==
    /\ ~first_frame
    /\ trk.lost_counter <= MAX_LOST_FRAMES + MaxLostExtra
    /\ cvt.lost_counter <= MAX_LOST_FRAMES + MaxLostExtra
    /\ \E u \in LoopTrackerUpdate(frame) :
         /\ result' = IF method = "color" THEN u.ret ELSE result
         /\ cvresult' = IF method = "color" THEN cvresult ELSE u.ret
         /\ IF u.ret = NoPos \/ u.lost
            THEN \E d \in AutoDetect(frame) :
                   IF d # NoPos
                   THEN /\ trk' = Redetected(u, d).trk
                        /\ cvt' = Redetected(u, d).cvt
                        /\ detection' =
                              [branch |-> "track", signalled |-> TRUE,
                               ran |-> TRUE, found |-> TRUE, ret |-> d,
                               retries |-> RetriesAfter(TRUE, TRUE)]
                   ELSE /\ trk' = u.trk
                        /\ cvt' = u.cvt
                        /\ detection' =
                              [branch |-> "track", signalled |-> TRUE,
                               ran |-> TRUE, found |-> FALSE, ret |-> NoPos,
                               retries |-> RetriesAfter(TRUE, FALSE)]
            ELSE /\ trk' = u.trk
                 /\ cvt' = u.cvt
                 /\ detection' =
                       [branch |-> "track", signalled |-> FALSE,
                        ran |-> FALSE, found |-> FALSE, ret |-> u.ret,
                        retries |-> 0]
    /\ UNCHANGED first_frame

\* one frame of the main loop through _process_detection (main.py, line 313)
ProcessFrame(frame) ==
    /\ FirstFrame(frame) \/ TrackFrame(frame)
    /\ UNCHANGED <<engineVars, elapsed, call, script, misses, method,
                   detection_mode, click, calibratorVars, attempt,
                   positionerVars>>

\* create_tracker(self.args.tracker): a new tracker of the class in use
\* replaces self.tracker
RecreateTracker ==
    /\ trk' = IF method = "color" THEN NewTracker ELSE trk
    /\ cvt' = IF method = "color" THEN cvt ELSE NewCvTracker

\* key 'd': the detection mode is toggled and detection starts over
KeyD ==
    /\ detection_mode' = IF detection_mode = "manual" THEN "auto" ELSE "manual"
    /\ first_frame' = TRUE
    /\ RecreateTracker
    /\ detection' = NoDetection
    /\ UNCHANGED <<engineVars, elapsed, call, script, misses, method, result,
                   cvresult, click, calibratorVars, attempt, positionerVars>>

\* key 'f': detection is forced on the next frame
KeyF ==
    /\ ~first_frame
    /\ first_frame' = TRUE
    /\ RecreateTracker
    /\ detection' = NoDetection
    /\ UNCHANGED <<engineVars, elapsed, call, script, misses, method,
                   detection_mode, result, cvresult, click, calibratorVars,
                   attempt, positionerVars>>

\* the application is started with --tracker and --auto-detect as chosen
InitLoop ==
    /\ InitEngine
    /\ InitTracker
    /\ script = NoScript
    /\ cvt = NewCvTracker
    /\ cvresult = NoPos
    /\ method \in {"color", "csrt"}
    /\ detection_mode \in {"auto", "manual"}
    /\ first_frame = TRUE
    /\ detection = NoDetection
    /\ click = NoClick
    /\ H = NoMatrix
    /\ H_inv = NoMatrix
    /\ image_corners = NoCorners
    /\ calibration_done = FALSE
    /\ attempt = NoAttempt
    /\ camera_center = NoCenter
    /\ hc = NoCorrection

NextLoop ==
    \/ \E f \in Frames : ProcessFrame(f)
    \/ KeyD
    \/ KeyF

SpecLoop == InitLoop /\ [][NextLoop]_vars

\* ---------------------------------------------------------------- manual detection
\* the tracker in use is initialised from the manual detection d
ManuallyDetected(d) ==
    /\ trk' = LoopInitialize(trk, cvt, d).trk
    /\ cvt' = LoopInitialize(trk, cvt, d).cvt
    /\ first_frame' = FALSE

\* _on_mouse_callback: a left click at p on the window showing scene, in
\* manual mode while detection is pending
MouseClick(scene, p) ==
    /\ detection_mode = "manual" /\ first_frame
    /\ \E d \in DetectPoint(scene, p) :
         /\ click' = [scene |-> scene, at |-> p, ret |-> d]
         /\ IF d # NoPos THEN ManuallyDetected(d)
            ELSE UNCHANGED <<trk, cvt, first_frame>>
    /\ UNCHANGED <<engineVars, elapsed, call, script, misses, result,
                   cvresult, method, detection_mode, detection,
                   calibratorVars, attempt, positionerVars>>

\* _handle_key, 'm': detect_point at the centre of the last frame, the popup
\* if that gives nothing
KeyM(scene) ==
    /\ LET centre == <<CAMERA_WIDTH \div 2, CAMERA_HEIGHT \div 2>>
       IN \E d \in DetectPoint(scene, centre) :
            /\ click' = [scene |-> scene, at |-> centre, ret |-> d]
            /\ \E f \in IF d # NoPos THEN {d}
                         ELSE PopupDetect(scene, ClickPoints) :
                 IF f # NoPos THEN ManuallyDetected(f)
                 ELSE UNCHANGED <<trk, cvt, first_frame>>
    /\ UNCHANGED <<engineVars, elapsed, call, script, misses, result,
                   cvresult, method, detection_mode, detection,
                   calibratorVars, attempt, positionerVars>>

NextManual ==
    \/ \E sc \in Scenes, p \in ClickPoints : MouseClick(sc, p)
    \/ \E sc \in Scenes : KeyM(sc)
    \/ KeyD
    \/ KeyF

SpecManual == InitLoop /\ [][NextManual]_vars

\* ---------------------------------------------------------------- calibrating
Cal ==
    [H |-> H, H_inv |-> H_inv, image_corners |-> image_corners,
     done |-> calibration_done]

SetCal(c) ==
    /\ H' = c.H
    /\ H_inv' = c.H_inv
    /\ image_corners' = c.image_corners
    /\ calibration_done' = c.done

\* the calibration attempts the application can end with on an input: the
\* markers of a frame in "aruco" mode, the clicks in "manual" mode
CalibrateBy(mode, input) ==
    IF mode = "aruco" THEN CalibrateAruco(Cal, input)
    ELSE CalibrateManual(Cal, input)

CalibrationInputs(mode) ==
    IF mode = "aruco" THEN MarkerFrames ELSE ClickInputs

\* run(): _calibrate, then _init_components.  With markers the attempt is
\* repeated frame after frame until it succeeds; a manual calibration that
\* fails ends the application, as does an exception.
SetupCalibrate(input) ==
    /\ attempt.phase = "setup"
    /\ \E r \in CalibrateBy(attempt.mode, input) :
         /\ SetCal(r.cal)
         /\ camera_center' = IF r.outcome = "ok" THEN NewPositioner(r.cal)
                              ELSE camera_center
         /\ attempt' = [attempt EXCEPT
                !.op = "setup", !.outcome = r.outcome, !.input = input,
                !.phase = IF r.outcome = "ok" THEN "running"
                          ELSE IF r.outcome = "failed" /\ attempt.mode = "aruco"
                          THEN "setup" ELSE "stopped"]
    /\ UNCHANGED <<engineVars, elapsed, call, script, trackerVars, cvVars,
                   loopVars, hc>>

\* _main_loop, step 2: with --auto-calibrate and a real camera the markers
\* are searched on every frame; the return value is ignored
LoopRecalibrate(markers) ==
    /\ attempt.phase = "running"
    /\ attempt.mode = "aruco"
    /\ \E r \in CalibrateAruco(Cal, markers) :
         /\ SetCal(r.cal)
         /\ attempt' = [attempt EXCEPT
                !.op = "loop", !.outcome = r.outcome, !.input = markers,
                !.phase = IF r.outcome = "raised" THEN "stopped" ELSE "running"]
    /\ UNCHANGED <<engineVars, elapsed, call, script, trackerVars, cvVars,
                   loopVars, positionerVars>>

\* _handle_key, 'c': recalibration, then a new positioner whatever the result
KeyC(input) ==
    /\ attempt.phase = "running"
    /\ \E r \in CalibrateBy(attempt.mode, input) :
         /\ SetCal(r.cal)
         /\ camera_center' = IF r.outcome = "raised" THEN camera_center
                              ELSE NewPositioner(r.cal)
         /\ attempt' = [attempt EXCEPT
                !.op = "key_c", !.outcome = r.outcome, !.input = input,
                !.phase = IF r.outcome = "raised" THEN "stopped" ELSE "running"]
    /\ UNCHANGED <<engineVars, elapsed, call, script, trackerVars, cvVars,
                   loopVars, hc>>

\* the application is started with a real camera, with or without
\* --auto-calibrate
InitCalibrating ==
    /\ InitEngine
    /\ InitTracker
    /\ script = NoScript
    /\ cvt = NewCvTracker
    /\ cvresult = NoPos
    /\ method = "color"
    /\ detection_mode = "manual"
    /\ first_frame = TRUE
    /\ detection = NoDetection
    /\ click = NoClick
    /\ H = NoMatrix
    /\ H_inv = NoMatrix
    /\ image_corners = NoCorners
    /\ calibration_done = FALSE
    /\ attempt \in {[NoAttempt EXCEPT !.mode = m] : m \in {"aruco", "manual"}}
    /\ camera_center = NoCenter
    /\ hc = NoCorrection

NextCalibrating ==
    \/ \E i \in CalibrationInputs(attempt.mode) : SetupCalibrate(i)
    \/ \E m \in MarkerFrames : LoopRecalibrate(m)
    \/ \E i \in CalibrationInputs(attempt.mode) : KeyC(i)

SpecCalibrating == InitCalibrating /\ [][NextCalibrating]_vars

\* ---------------------------------------------------------------- playing
\* HomographyCalibrator.image_to_world: H applied to (u, v, 1) and
\* normalised; the result in mm of the plane
ImageToWorld(c, p) ==
    IF ~c.done THEN NoPos
    ELSE LET w == [i \in 1..3 |->
                    c.H[i][1] * p[1] + c.H[i][2] * p[2] + c.H[i][3]]
         IN IF w[3] = 0 THEN NoPos
            ELSE <<(10 * w[1]) \div w[3], (10 * w[2]) \div w[3]>>

\* _main_loop, step 3, without --correct-height: the plane position of what
\* _process_detection returned
BallWorldPos(c, d) ==
    IF d = NoPos THEN NoPos ELSE ImageToWorld(c, <<d[1], d[2]>>)

\* the play area as the camera of the game shows it (one pixel is 2 cm of
\* the plane), and the ball at two places 20 cm apart, away from the holes
PlayRect == [u0 |-> 240, v0 |-> 230, du |-> 30, dv |-> 20]
PlaySpots == {<<250, 240>>, <<260, 240>>}
PlayFrames == {{}} \cup {{Ball(p)} : p \in PlaySpots}
\* strokes up to which the game is followed
MaxPlayPutts == 2

\* one frame of the main loop (main.py, lines 313-328): _process_detection,
\* the plane position of its result, engine.update
LoopFrame(frame) ==
    /\ call.op # "init"
    /\ FirstFrame(frame) \/ TrackFrame(frame)
    /\ LET p == BallWorldPos(Cal, detection'.ret)
       IN /\ MayReport(Eng, p)
          /\ UpdateOn(Eng, p).stopped_frame_count
                    <= BALL_STOPPED_FRAMES + MAX_LOST_FRAMES
          /\ UpdateOn(Eng, p).putts <= MaxPlayPutts
          /\ UpdateCall(p)
    /\ UNCHANGED <<script, misses, method, detection_mode, click,
                   calibratorVars, attempt, positionerVars>>

\* run(), step 4: the game is started once the calibration has succeeded
SetupStartGame ==
    /\ attempt.phase = "running"
    /\ StartGame

\* the application is started with --auto-detect and the colour tracker
InitPlaying ==
    /\ InitEngine
    /\ InitTracker
    /\ script = NoScript
    /\ cvt = NewCvTracker
    /\ cvresult = NoPos
    /\ method = "color"
    /\ detection_mode = "auto"
    /\ first_frame = TRUE
    /\ detection = NoDetection
    /\ click = NoClick
    /\ H = NoMatrix
    /\ H_inv = NoMatrix
    /\ image_corners = NoCorners
    /\ calibration_done = FALSE
    /\ attempt = NoAttempt
    /\ camera_center = NoCenter
    /\ hc = NoCorrection

NextPlaying ==
    \/ SetupCalibrate(Corners(PlayRect))
    \/ SetupStartGame
    \/ \E f \in PlayFrames : LoopFrame(f)

SpecPlaying == InitPlaying /\ [][NextPlaying]_vars

\* ---------------------------------------------------------------- correcting
\* PlanarPositioner.set_camera_center
SetCameraCenter(c) ==
    /\ camera_center' = c
    /\ UNCHANGED <<engineVars, elapsed, call, script, trackerVars, cvVars,
                   loopVars, calibratorVars, attempt, hc>>

\* positioner.correct_height(p, h)
CorrectHeightCall(p, h) ==
    /\ hc' = [center |-> camera_center, apparent |-> p, height |-> h,
              ret |-> CorrectHeight(camera_center, p, h)]
    /\ UNCHANGED <<engineVars, elapsed, call, script, trackerVars, cvVars,
                   loopVars, calibratorVars, attempt, camera_center>>

NextCorrecting ==
    \/ \E c \in Centers : SetCameraCenter(c)
    \/ \E p \in ApparentPositions, h \in Heights : CorrectHeightCall(p, h)

\* a positioner built on a calibrator that is not calibrated: no centre yet
SpecCorrecting == Init /\ [][NextCorrecting]_vars

\* ---------------------------------------------------------------- claims
IsUpdate == call'.op = "update"
Playing == ~game_over /\ ~celebrating

\* C1: an update that carries a ball position while the game is neither over
\* nor celebrating triggers hole-in if and only if the distance to the
\* current hole is below 4.0 and (the ball is judged not moving on this call
\* or the distance is below 3.5); when triggered, the holed flag is set and
\* the engine is celebrating after that same call.
C1_HoleInIff ==
    [][(IsUpdate /\ call'.located /\ Playing) =>
        LET has_hole == hole_position # NoPos
            d == IF has_hole THEN Dist2(ball_world_pos', hole_position) ELSE 0
            cond == /\ has_hole
                    /\ d < Sq(HOLE_IN_TOLERANCE_MM)
                    /\ (~is_ball_moving' \/ d < Sq(HOLE_RADIUS_MM))
        IN /\ cond => (is_hole_in' /\ celebrating')
           /\ ~cond => (~is_hole_in' /\ ~celebrating')
    ]_vars

\* C1 witness: hole-in was just triggered by a ball at rest on the rim
\* (inside the tolerance, outside the radius).
C1_Witness ==
    /\ call = [op |-> "update", located |-> TRUE]
    /\ status.kind = "holed" /\ celebrating /\ is_hole_in
    /\ ~is_ball_moving
    /\ distance_to_hole >= Sq(HOLE_RADIUS_MM)

\* C2: when hole-in is triggered the level's score is the stroke count at
\* that moment, at least 1; total_score grows by exactly that amount; and
\* the stroke count and the score stay as they are on every update of the
\* celebration that does not advance the level.
C2_ScoreAndFreeze ==
    [][/\ (IsUpdate /\ ~celebrating /\ celebrating') =>
            LET counted == IF is_ball_moving /\ ~is_ball_moving'
                           THEN putts + 1 ELSE putts
            IN /\ putts' = Max(1, counted)
               /\ total_score' = total_score + putts'
       /\ (IsUpdate /\ celebrating /\ level' = level) =>
            (putts' = putts /\ total_score' = total_score)
    ]_vars

\* C2 witness: the first report of the second level is in the hole, so a
\* count of 0 was raised to 1 and added to the score of the first level.
C2_Witness ==
    /\ celebrating /\ is_hole_in /\ level = 2
    /\ Len(last_positions) = 1 /\ putts = 1 /\ total_score = 2

\* C5 as claimed: each moving -> stopped transition of the motion flag on an
\* update leaves the stroke counter one higher, and an update on which the
\* ball stays stopped does not raise it.
C5_Original ==
    [][/\ (IsUpdate /\ is_ball_moving /\ ~is_ball_moving') =>
            putts' = putts + 1
       /\ (IsUpdate /\ ~is_ball_moving /\ ~is_ball_moving') =>
            putts' <= putts
    ]_vars

\* C5 as amended: each moving -> stopped transition of the motion flag on an
\* update counts one stroke; the counter is one higher after the update,
\* unless that stroke is the MAX_PUTTS_PER_HOLE-th and no hole-in is
\* triggered, in which case the same update advances the level and leaves
\* the counter at 0.  An update on which the ball stays stopped does not
\* raise the counter, unless it triggers hole-in on a count of 0 (raised to 1).
C5_StrokePerTransition ==
    [][/\ (IsUpdate /\ is_ball_moving /\ ~is_ball_moving') =>
            IF putts + 1 >= MAX_PUTTS_PER_HOLE /\ ~celebrating'
            THEN putts' = 0 /\ level' = level + 1
            ELSE putts' = putts + 1
       /\ (IsUpdate /\ ~is_ball_moving /\ ~is_ball_moving') =>
            \/ putts' <= putts
            \/ (~celebrating /\ celebrating' /\ putts = 0 /\ putts' = 1)
    ]_vars

\* C5 witness: the update that has just counted the second stroke of a level.
C5_Witness ==
    /\ call = [op |-> "update", located |-> TRUE]
    /\ ~is_ball_moving /\ putts = 2 /\ status.kind = "putts"
    /\ stopped_frame_count = BALL_STOPPED_FRAMES

\* C6: while celebrating and until the celebration duration has elapsed,
\* every update, with a position or without, leaves level, stroke count,
\* total score, hole, recorded ball position, motion flag, history and
\* stillness counter as they are: only the status text changes.
C6_CelebrationFrame ==
    [][(IsUpdate /\ celebrating /\ ~game_over
            /\ elapsed <= CELEBRATION_DURATION) =>
        /\ UNCHANGED <<level, putts, total_score, hole_position,
                       ball_world_pos, is_ball_moving, last_positions,
                       stopped_frame_count, distance_to_hole>>
        /\ UNCHANGED <<is_hole_in, celebrating, game_over, elapsed>>
        /\ status'.kind = "countdown"
    ]_vars

\* C6 witness: an update with a position made exactly when the duration is
\* reached, still answered by the countdown.
C6_Witness ==
    /\ call = [op |-> "update", located |-> TRUE]
    /\ celebrating /\ elapsed = CELEBRATION_DURATION
    /\ status = Status("countdown", 0)

\* C7: the first update made after the celebration duration has elapsed
\* advances the level by exactly one, with or without a position: stroke
\* count 0, holed flag cleared, stillness counter 0, history empty, and the
\* hole moved to the next entry of the list, or the game over if there is none.
C7_AdvanceAfterCelebration ==
    [][(IsUpdate /\ celebrating /\ ~game_over
            /\ elapsed > CELEBRATION_DURATION) =>
        /\ level' = level + 1
        /\ putts' = 0 /\ ~is_hole_in' /\ ~celebrating'
        /\ stopped_frame_count' = 0 /\ last_positions' = <<>>
        /\ total_score' = total_score
        /\ IF level' <= Len(HOLE_POSITIONS)
           THEN hole_position' = HOLE_POSITIONS[level'] /\ ~game_over'
           ELSE game_over' /\ hole_position' = hole_position
    ]_vars

\* C7 witness: the level was just advanced to the third hole by an update
\* that carried no position.
C7_Witness ==
    /\ call = [op |-> "update", located |-> FALSE]
    /\ status = Status("level", 3) /\ level = 3
    /\ hole_position = HOLE_POSITIONS[3]
    /\ last_positions = <<>> /\ putts = 0 /\ total_score >= 2

\* C8: the update that counts the MAX_PUTTS_PER_HOLE-th stroke without
\* triggering hole-in advances the level itself, and the engine is never
\* left waiting at the cap: outside a celebration the stroke count is below it.
C8_ForcedAdvance ==
    /\ [][(IsUpdate /\ Playing /\ ~celebrating'
             /\ is_ball_moving /\ ~is_ball_moving'
             /\ putts + 1 = MAX_PUTTS_PER_HOLE) =>
            /\ level' = level + 1 /\ putts' = 0
            /\ last_positions' = <<>> /\ stopped_frame_count' = 0
            /\ total_score' = total_score
            /\ IF level' <= Len(HOLE_POSITIONS)
               THEN hole_position' = HOLE_POSITIONS[level'] /\ ~game_over'
               ELSE game_over'
         ]_vars
    /\ [](~celebrating => putts < MAX_PUTTS_PER_HOLE)

\* C8 witness: a forced advance has just brought the engine to the second
\* hole with nothing scored.
C8_Witness ==
    /\ call = [op |-> "update", located |-> TRUE]
    /\ status = Status("level", 2) /\ level = 2 /\ total_score = 0
    /\ ~is_ball_moving /\ putts = 0 /\ last_positions = <<>>

\* C9: the game is over as soon as the level passes the last configured
\* hole, and then no update, with a position or without, changes any field
\* of the engine.
C9_GameOverHalts ==
    /\ [](level > Len(HOLE_POSITIONS) => game_over)
    /\ [][(IsUpdate /\ game_over) => UNCHANGED <<engineVars, elapsed>>]_vars

\* C9 witness: an update with a position answered by the finished game.
C9_Witness ==
    /\ call = [op |-> "update", located |-> TRUE]
    /\ game_over /\ level = Len(HOLE_POSITIONS) + 1
    /\ status.kind = "completed" /\ ~celebrating

\* C3 as claimed: fed one identical position from a fresh start, the engine
\* reports the ball moving on updates 1 to 14 and stopped on update 15.
C3_StoppedAtFrame15 ==
    script.kind = "still" =>
        /\ (script.n \in 1..(BALL_STOPPED_FRAMES - 1) => is_ball_moving)
        /\ (script.n = BALL_STOPPED_FRAMES => ~is_ball_moving)

\* C4 as claimed: the moving / stopped / moving / stopped trajectory ends
\* with a stroke count of exactly 2.
C4_TwoStrokes ==
    (script.kind = "strokes" /\ script.n = ScriptLength(script)) => putts = 2

\* C10: an initialised ColorTracker reports is_lost exactly when more than
\* MAX_LOST_FRAMES consecutive updates, counted from the last initialisation
\* or match, found no ball in the search window: on the 31st such update and
\* not on the 30th or earlier.
C10_LostOnFrame31 ==
    trk.initialized =>
        /\ trk.lost_counter = misses
        /\ IsLost(trk) <=> misses >= 31

\* C10 witness: the 31st consecutive miss, reported as lost.
C10_Witness ==
    trk.initialized /\ misses = 31 /\ IsLost(trk) /\ result = NoPos

ColorSignalsLoss == result = NoPos \/ IsLost(trk)
CvSignalsLoss == cvresult = NoPos \/ CvIsLost(cvt)

CurInitialized == IF method = "color" THEN trk.initialized ELSE cvt.initialized
CurLostCounter == IF method = "color" THEN trk.lost_counter ELSE cvt.lost_counter
CurLastPosition == IF method = "color" THEN trk.last_position ELSE cvt.last_position
CurIsLost == IF method = "color" THEN IsLost(trk) ELSE CvIsLost(cvt)

\* C12: on every frame of the main loop on which the tracker signals loss,
\* full-frame detection is run on that frame; if it fails the frame yields
\* no position, and on the next frame either the tracker has found the ball
\* again by itself or loss is signalled and detection is run again; if it
\* succeeds the frame yields the detection and the tracker in use is a new
\* one initialised from it: initialised, lost counter 0, not lost.
C12_Redetection ==
    /\ []((detection.branch = "track" /\ detection.signalled) =>
            /\ detection.ran
            /\ IF detection.found
               THEN /\ detection.ret # NoPos
                    /\ CurInitialized /\ CurLostCounter = 0 /\ ~CurIsLost
                    /\ CurLastPosition = <<detection.ret[1], detection.ret[2]>>
               ELSE detection.ret = NoPos)
    /\ [][(/\ detection.branch = "track"
            /\ detection.signalled /\ ~detection.found
            /\ detection'.branch = "track") =>
                \/ detection'.signalled /\ detection'.ran
                \/ CurLostCounter' = 0 /\ detection'.ret # NoPos
          ]_vars

\* C12 witness: with the OpenCV tracker lost after 31 failures, detection
\* failed on that frame and has just succeeded on the next.
C12_Witness ==
    /\ method = "csrt"
    /\ detection.branch = "track" /\ detection.signalled /\ detection.found
    /\ detection.retries = 1
    /\ cvt.initialized /\ cvt.lost_counter = 0

\* a calibration attempt has just been made (the step is described by
\* attempt')
IsAttempt == attempt'.op # "none"

\* the ids of the markers handed to the last attempt
MarkerIds(markers) == {markers[i].id : i \in 1..Len(markers)}

C15_FailureKeepsMapping ==
    [][(/\ IsAttempt /\ calibration_done
        /\ attempt'.outcome \in {"failed", "raised"}) =>
            UNCHANGED <<H, H_inv, calibration_done>>
      ]_vars

\* C16 as claimed: a singular solved matrix leaves the calibrator not
\* calibrated; whenever is_calibrated holds, H and H_inv are both present
\* and H_inv is the inverse of the current H.
C16_CalibratedMeansInverse ==
    /\ (H # NoMatrix /\ Det3(H) = 0) => ~calibration_done
    /\ calibration_done =>
            /\ H # NoMatrix /\ H_inv # NoMatrix
            /\ IsInverse(H, H_inv)

Corrects == hc.apparent # NoPos /\ hc.center # NoCenter

\* squared distance in the plane between the points q and r = <<x, y, d>>,
\* times Sq(q[3] * r[3])
PlaneDist2(q, r) ==
    Sq(q[1] * r[3] - r[1] * q[3]) + Sq(q[2] * r[3] - r[2] * q[3])

\* the vertical projection (Cx, Cy) of the camera centre c, as a point
FootOf(c) == <<c[1], c[2], c[4]>>

\* the same point of the plane
SamePoint(q, r) == q[1] * r[3] = r[1] * q[3] /\ q[2] * r[3] = r[2] * q[3]

\* r is closer to the foot f than a is (strictly if strict)
Closer(f, r, a) ==
    PlaneDist2(f, r) * Sq(a[3]) < PlaneDist2(f, a) * Sq(r[3])

\* the point (r, h) is on the line through the camera centre c and (a, 0):
\* (R - A) x (C - A) = 0, every coordinate times the denominators
OnProjectionRay(c, a, h, r) ==
    LET ux == r[1] * a[3] - a[1] * r[3]    \* (X - X') * r[3] * a[3]
        uy == r[2] * a[3] - a[2] * r[3]
        uz == h * r[3] * a[3]
        vx == c[1] * a[3] - a[1] * c[4]    \* (Cx - X') * c[4] * a[3]
        vy == c[2] * a[3] - a[2] * c[4]
        vz == c[3] * a[3]
    IN /\ uy * vz - uz * vy = 0
       /\ uz * vx - ux * vz = 0
       /\ ux * vy - uy * vx = 0

\* r is on the ray of the plane from the foot f through a, beyond f
OnRayFromFoot(f, a, r) ==
    LET ax == a[1] * f[3] - f[1] * a[3]
        ay == a[2] * f[3] - f[2] * a[3]
        rx == (r[1] * f[3] - f[1] * r[3]) * (IF r[3] < 0 THEN -1 ELSE 1)
        ry == (r[2] * f[3] - f[2] * r[3]) * (IF r[3] < 0 THEN -1 ELSE 1)
    IN ax * ry - ay * rx = 0 /\ ax * rx + ay * ry > 0

\* C18 as claimed: for a camera centre with Cz different from h,
\* correct_height returns the point at height h of the line through the
\* camera centre and the apparent point, which for Cz > h > 0 is closer to
\* (Cx, Cy) than the apparent point (or is that point).
C18_PointOnProjectionRay ==
    (Corrects /\ hc.center[3] # hc.height * hc.center[4]) =>
        /\ OnProjectionRay(hc.center, AsPoint(hc.apparent), hc.height, hc.ret)
        /\ (hc.center[3] > hc.height * hc.center[4] /\ hc.height > 0) =>
              \/ Closer(FootOf(hc.center), hc.ret, AsPoint(hc.apparent))
              \/ SamePoint(hc.ret, FootOf(hc.center))

C20_DegenerateIdentity ==
    (/\ hc.apparent # NoPos
     /\ \/ Abs(hc.height) < HEIGHT_EPS
        \/ hc.center = NoCenter
        \/ Abs(hc.center[3] - hc.height * hc.center[4])
                < HEIGHT_EPS * Abs(hc.center[4])) =>
        /\ hc.ret # NoPos
        /\ SamePoint(hc.ret, AsPoint(hc.apparent))

\* C20 witness: a height that is not 0 but below the tolerance, with a
\* camera centre far above it.
C20_Witness ==
    /\ hc.center = <<4, 2, 12, 1>> /\ hc.apparent = <<10, 0>>
    /\ hc.height = 1
    /\ hc.ret = <<10, 0, 1>>

\* the contours around the colour under the last point given to
\* detect_point whose enclosing radius is within the configured limits
PlausibleAtClick ==
    UNION {{cnt \in MaskContours(click.scene, h) : PlausibleRadius(cnt)} :
           h \in HueAt(click.scene, click.at)}

\* C21 as claimed: detect_point returns none whenever no contour around the
\* clicked colour has an enclosing radius within the configured limits, and
\* returns (x, y, radius) only when such a contour exists.
C21_NoneWithoutPlausibleRadius ==
    click.at # NoPos =>
        /\ PlausibleAtClick = {} => click.ret = NoPos
        /\ click.ret # NoPos => PlausibleAtClick # {}

\* the history as update leaves it for _check_movement on a located update
HistoryAfter ==
    LastN(Append(last_positions, ball_world_pos'), MaxHistory)

\* the windows of the last BALL_STOPPED_FRAMES located updates lie within
\* the last 2 * BALL_STOPPED_FRAMES - 1 samples
StillRun(hist) ==
    /\ Len(hist) >= 2 * BALL_STOPPED_FRAMES - 1
    /\ MaxDisplacement2(LastN(hist, 2 * BALL_STOPPED_FRAMES - 1))
           < Sq(BALL_STOPPED_THRESHOLD_MM)

\* C22: on a located update made while playing, the ball is reported moving
\* while the history holds fewer than 15 positions; it is reported stopped
\* only if the largest consecutive displacement inside the 15-sample window
\* was below 0.8 on each of the last 15 located updates (no displacement of
\* 0.8 or more among the last 29 samples); and an update whose window holds
\* a displacement of 0.8 or more sets the stillness counter to 0 and
\* reports moving.
C22_MovementHysteresis ==
    [][(IsUpdate /\ call'.located /\ Playing) =>
        /\ Len(HistoryAfter) < BALL_STOPPED_FRAMES => is_ball_moving'
        /\ ~is_ball_moving' => StillRun(HistoryAfter)
        /\ (/\ Len(HistoryAfter) >= BALL_STOPPED_FRAMES
            /\ MaxDisplacement2(LastN(HistoryAfter, BALL_STOPPED_FRAMES))
                   >= Sq(BALL_STOPPED_THRESHOLD_MM)) =>
              (is_ball_moving' /\ stopped_frame_count' = 0)
    ]_vars

\* C22 witness: the ball has just been reported stopped although it shifted
\* by 0.7 cm during the last 29 samples.
C22_Witness ==
    /\ call = [op |-> "update", located |-> TRUE]
    /\ ~is_ball_moving /\ stopped_frame_count = BALL_STOPPED_FRAMES
    /\ Len(last_positions) >= 2 * BALL_STOPPED_FRAMES - 1
    /\ JustA \in {last_positions[i] : i \in 1..Len(last_positions)}
    /\ FarA \in {last_positions[i] : i \in 1..Len(last_positions)}

\* C23: after every public operation of the engine (start_game, update,
\* restart_level, restart_game), in any order, the stroke count is between
\* 0 and MAX_PUTTS_PER_HOLE.
C23_PuttsInRange == putts \in 0..MAX_PUTTS_PER_HOLE

\* C23 witness: the tenth stroke came to rest on the rim, so the hole-in
\* keeps the stroke count at the maximum for the celebration.
C23_Witness ==
    /\ call = [op |-> "update", located |-> TRUE]
    /\ celebrating /\ is_hole_in /\ putts = MAX_PUTTS_PER_HOLE
    /\ total_score = MAX_PUTTS_PER_HOLE

\* start_game has just been called (restart_game is start_game)
GameStarted == call.op \in {"start_game", "restart_game"}

\* C24: in every state reached after start_game, the level is between 1 and
\* N + 1 for N configured holes, the game is over exactly when the level is
\* N + 1, and while it is not over the hole is the level-th configured one.
C24_LevelAndHole ==
    [](GameStarted =>
        [](/\ level \in 1..(Len(HOLE_POSITIONS) + 1)
           /\ game_over <=> level = Len(HOLE_POSITIONS) + 1
           /\ ~game_over => hole_position = HOLE_POSITIONS[level]))

\* C24 witness: the game has ended past the last hole without a hole-in,
\* every level having been left at the stroke cap.
C24_Witness ==
    /\ game_over /\ level = Len(HOLE_POSITIONS) + 1 /\ total_score = 0
    /\ hole_position = HOLE_POSITIONS[Len(HOLE_POSITIONS)]
    /\ status.kind = "completed"

\* C25: under any interleaving of update and restart_level the total score
\* increases at most once while the level keeps one value.  Level 1 is only
\* ever entered with a total score of 0 (construction, start_game), so a
\* positive total at level 1 has already been raised there and no further
\* step that stays on level 1 may raise it again.
C25_ScoredOncePerLevel ==
    [][(level = 1 /\ level' = 1 /\ total_score > 0)
        => total_score' <= total_score]_vars

\* every located update since the history was last emptied (at the start of
\* the level or before) reported the same position, outside the tolerance
\* of the hole
NeverMoved ==
    /\ last_positions # <<>>
    /\ Len(last_positions) < MaxHistory
    /\ Changes(last_positions) = 0
    /\ \/ hole_position = NoPos
       \/ Dist2(last_positions[1], hole_position) >= Sq(HOLE_IN_TOLERANCE_MM)

\* C27: the stroke counter increases only after the reported position has
\* changed since the level began: a ball reported at one unchanging position
\* from the first update of a level, outside the tolerance of the hole, keeps
\* putts at 0.
C27_NoStrokeWithoutMotion == NeverMoved => putts = 0

\* C28: restart_game, from any state, leaves the engine as a new engine is
\* after start_game: the position history is empty, the stillness counter is
\* 0, and the located update that follows reports the ball as moving.
C28_RestartGameIsFresh ==
    [][/\ call'.op = "restart_game"
            => last_positions' = <<>> /\ stopped_frame_count' = 0
       /\ (call.op = "restart_game" /\ IsUpdate /\ call'.located)
            => is_ball_moving']_vars

\* C29: an update without a position, while the game is neither over nor
\* celebrating, changes only the status text: level, putts, total score,
\* motion flag, ball position, distance, hole, history, stillness counter and
\* the hole-in, game-over and celebration flags are as before.
C29_UnlocatedUpdateFrame ==
    [][(IsUpdate /\ ~call'.located /\ Playing)
        => /\ status' = Status("undetected", 0)
           /\ UNCHANGED <<level, putts, total_score, is_ball_moving,
                          ball_world_pos, distance_to_hole, hole_position,
                          last_positions, stopped_frame_count, is_hole_in,
                          game_over, celebrating>>]_vars

\* C29 witness: the ball went out of sight after a counted stroke, with a
\* run of still frames under way.
C29_Witness ==
    /\ call = [op |-> "update", located |-> FALSE]
    /\ status = Status("undetected", 0)
    /\ putts > 0 /\ ~is_ball_moving
    /\ stopped_frame_count >= BALL_STOPPED_FRAMES
    /\ last_positions # <<>>

\* the step is an update that holes the ball out and adds the strokes of the
\* level, between 1 and the maximum, to the total
HoleInStep ==
    /\ IsUpdate /\ call'.located /\ Playing
    /\ is_hole_in' /\ celebrating'
    /\ total_score' = total_score + putts'
    /\ putts' \in 1..MAX_PUTTS_PER_HOLE

\* the step starts a game over again, with a total of 0
ScoreResetStep ==
    /\ call'.op \in {"start_game", "restart_game"}
    /\ total_score' = 0

\* C30 as stated: the total score changes only through hole-in, by a value
\* between 1 and MAX_PUTTS_PER_HOLE.
C30_Original == [][total_score' # total_score => HoleInStep]_vars

\* C30: the total score changes only through hole-in, by a value between 1
\* and MAX_PUTTS_PER_HOLE, and through start_game or restart_game, which set
\* it to 0; a forced advance at the stroke cap, restart_level, the advance
\* after the celebration and every other update leave it as it is.
C30_ScoreFrame ==
    [][total_score' # total_score => HoleInStep \/ ScoreResetStep]_vars

\* C30 witness: two levels have been left, one by a hole-in with the last
\* stroke and one by the forced advance, and the total is what the hole-in
\* added.
C30_Witness ==
    /\ call = [op |-> "update", located |-> TRUE]
    /\ status = Status("level", 3) /\ level = 3 /\ ~celebrating
    /\ total_score = MAX_PUTTS_PER_HOLE

\* the frame just processed was a coasting one: the colour tracker found no
\* match and returned its last known position, which went to the engine
CoastedFrame ==
    /\ call = [op |-> "update", located |-> TRUE]
    /\ detection.branch = "track" /\ ~detection.signalled
    /\ detection.ret # NoPos
    /\ trk.lost_counter > 0

\* C26: the stroke counter never increases on a frame where the position
\* handed to the engine is a coasted one.
C26_NoStrokeWhileCoasting ==
    [][(IsUpdate /\ CoastedFrame') => putts' <= putts]_vars

=============================================================================
